---------------------------- MODULE Spec2Model ----------------------------
(***************************************************************************)
(* Model of the ESI thermostat integration (custom_components/              *)
(* esi_thermostat): the update coordinator (login, device-list poll,        *)
(* set-work-mode command, high-frequency poll budget) and the optimistic    *)
(* "pending vs. confirmed" state machines of the climate and water-heater   *)
(* entities with their update queues.                                       *)
(*                                                                          *)
(* Scheduling is asyncio's: a handler runs without interruption up to its   *)
(* next await that really suspends (an HTTP round trip, queue.get() on an   *)
(* empty queue, asyncio.sleep).  One action is one such uninterrupted run.  *)
(*                                                                          *)
(* Temperatures: the vendor API carries tenths of a degree (integers).      *)
(* Entity-side temperatures (Python floats, degrees) are represented as     *)
(* integer hundredths of a degree, so float(v) / 10 is v * 10 and           *)
(* int(t * 10) is (t * 10) \div 100.                                        *)
(***************************************************************************)
EXTENDS Integers, Sequences, FiniteSets, TLC

VARIABLES
    account,              \* device ids the vendor account holds (fixed)
    observe,              \* what is recorded for inspection (fixed): "none",
                          \* "replies" (of a poll cycle), "events" (of an
                          \* entity) or "commands" (of the thermostat's user)
    coord,                \* ESIDataUpdateCoordinator's fields
    data,                 \* coordinator.data: NoData or the polled device list
    last_update_result,   \* how the last _async_update_data ended (observer)
    poll,                 \* position of the poll cycle in flight and its caller
    loginResp,            \* reply the current/last cycle's login got (observer)
    devResp,              \* reply the current/last cycle's device fetch got
    entities,             \* device ids for which an entity was constructed
    climate,              \* EsiClimate's fields and its processor task
    heater,               \* EsiWaterHeater's fields and its processor task
    flow,                 \* the config flow: its step, errors and result
    platforms             \* the platforms' setup: the typed device list and
                          \* the entities each platform made of it

vars == <<account, observe, coord, data, last_update_result, poll,
          loginResp, devResp, entities, climate, heater, flow, platforms>>

---------------------------------------------------------------------------
(* Values *)

\* Python's None: for a number (a temperature, a work mode), for an HVAC mode
\* or operation, for the token.  Bad is a field value on which float() or
\* int() raises TypeError/ValueError.
None == 0 - 1
Bad == 0 - 2
NoMode == "none"
NoToken == "none"

\* const.py
MAX_HIGH_FREQUENCY_POLL_COUNT == 10
DEFAULT_SCAN_INTERVAL_MINUTES == 3
CLIMATE_WORK_MODE_AUTO == 0
CLIMATE_WORK_MODE_AUTO_TEMP_OVERRIDE == 1
CLIMATE_WORK_MODE_OFF == 4
CLIMATE_WORK_MODE_MANUAL == 5
WATERHEATER_WORK_MODE_AUTO == 0
WATERHEATER_WORK_MODE_OFF == 1
WATERHEATER_WORK_MODE_MANUAL == 2
WATERHEATER_WORK_MODE_AUTO_TEMP_OVERRIDE == 4
WATERHEATER_WORK_MODE_BOOST == 5

\* HVACMode, and the water heater's operations
HEAT == "heat"
AUTO == "auto"
OFF == "off"
STATE_OFF == "off"
STATE_ON == "on"
OPERATION_AUTO == "auto"
OPERATION_AUTO_OVERRIDE == "auto (+temp)"
OPERATION_BOOST == "boost"

\* update intervals, in seconds
normal_update_interval == DEFAULT_SCAN_INTERVAL_MINUTES * 60
HighFrequencyInterval == 1
HeaterConfirmInterval == 2

\* Bounds of the model: the setpoints a user asks for are BaseTemp + 5k
\* tenths of a degree (k = 0..MaxSteps), on the entities' 0.5 degree grid; the
\* server reports BaseTemp or a value 0.3 degrees above it.
BaseTemp == 30 * 10
MaxSteps == 1
MaxQueue == 2
MaxDevices == 3

ClimateId == "c"
HeaterId == "w"
DevIds == {ClimateId, HeaterId}

GridTenths == {BaseTemp + 5 * k : k \in 0..MaxSteps}
ServerTemps == {BaseTemp, BaseTemp + 3}

\* float(v) / 10: tenths of a degree to degrees (held as hundredths)
from_api(v) == v * 10

\* (variant: int(t), the factor 10 left out)
to_api_whole_degrees(t) == t \div 100

\* int(t * 10): degrees (held as hundredths) to tenths, truncating
to_api(t) == (t * 10) \div 100

UserTemps == {from_api(v) : v \in GridTenths}

Abs(x) == IF x < 0 THEN 0 - x ELSE x

ClimateWorkModes == {CLIMATE_WORK_MODE_AUTO, CLIMATE_WORK_MODE_AUTO_TEMP_OVERRIDE,
                     CLIMATE_WORK_MODE_OFF, CLIMATE_WORK_MODE_MANUAL}
HeaterWorkModes == {WATERHEATER_WORK_MODE_AUTO, WATERHEATER_WORK_MODE_OFF,
                    WATERHEATER_WORK_MODE_MANUAL}

WorkModesOf(d) == IF d = ClimateId THEN ClimateWorkModes ELSE HeaterWorkModes

\* a device of the polled list, or its absence from the list
AbsentDev == [present |-> FALSE, temp |-> None, work_mode |-> None]
DevRecs(d) == [present : {TRUE}, temp : ServerTemps \cup {Bad}, work_mode : WorkModesOf(d)]

\* what the list can say about device d: any record, or nothing when the
\* account does not hold d or the list leaves it out
DevOptions(d) == IF d \in account THEN DevRecs(d) \cup {AbsentDev} ELSE {AbsentDev}

\* the device lists the server can answer with for this account
DeviceLists ==
    { [d \in DevIds |-> IF d = ClimateId THEN c ELSE w] :
        c \in DevOptions(ClimateId), w \in DevOptions(HeaterId) }

NoDevices == [d \in DevIds |-> AbsentDev]

\* coordinator.data: None before the first successful refresh
NoData == [loaded |-> FALSE, devices |-> NoDevices]

\* _get_device(): the entity's device in coordinator.data
get_device(dat, d) == dat.devices[d]

---------------------------------------------------------------------------
(* HTTP replies *)

\* A reply: the HTTP exchange raised (connection error, timeout), or it has a
\* status, a body that parses as JSON or not, and in the envelope a truthy
\* "statu" or not and the payload field (user.token / devices) or not.
Reply(raised, status, is_json, statu, field) ==
    [raised |-> raised, status |-> status, is_json |-> is_json, statu |-> statu,
     field |-> field]

\* one reply of each kind the code tells apart
Replies ==
    { Reply(TRUE, 0, FALSE, FALSE, FALSE),      \* the exchange raised
      Reply(FALSE, 500, TRUE, TRUE, TRUE),      \* a status other than 200
      Reply(FALSE, 200, FALSE, FALSE, FALSE),   \* the body is not JSON
      Reply(FALSE, 200, TRUE, FALSE, TRUE),     \* statu false
      Reply(FALSE, 200, TRUE, FALSE, FALSE),    \* statu false, no payload
      Reply(FALSE, 200, TRUE, TRUE, FALSE),     \* statu true, no payload
      Reply(FALSE, 200, TRUE, TRUE, TRUE) }     \* statu true with the payload

\* the replies to a set-work-mode request: its envelope has no payload field
\* the code looks at
CommandReplies == {r \in Replies : r.field \/ ~r.is_json}

\* what a reply to a set-work-mode request is, whatever the code makes of it:
\* no usable answer ("raised": the exchange failed, a status other than 200, a
\* body that is not JSON), the command rejected (statu false) or accepted
reply_kind(response) ==
    IF response.raised \/ response.status # 200 \/ ~response.is_json THEN "raised"
    ELSE IF ~response.statu THEN "rejected"
    ELSE "accepted"

NoReply == [raised |-> FALSE, status |-> 0, is_json |-> FALSE, statu |-> FALSE,
            field |-> FALSE]

\* ESIDataUpdateCoordinator.json: the body parsed ("data"), or the exception
json(response) ==
    IF response.status # 200 THEN "ValueError"
    ELSE IF ~response.is_json THEN "UpdateFailed"
    ELSE "data"

\* `async with webclient.post(...) as response: data = await self.json(response)`
post(response) == IF response.raised THEN "ClientError" ELSE json(response)

\* _async_login after the reply: "ok", or the exception raised
async_login(response) ==
    IF post(response) # "data" THEN post(response)
    ELSE IF ~response.statu \/ ~response.field THEN "UpdateFailed"
    ELSE "ok"

\* _async_get_devices before the request: the token check
get_devices_guard(co) == IF co.token = NoToken THEN "ValueError" ELSE "request"

\* (variant: the envelope's "devices" field is not looked for)
async_get_devices_any_envelope(response) ==
    IF post(response) # "data" THEN post(response)
    ELSE IF ~response.statu THEN "UpdateFailed"
    ELSE "ok"

\* _async_get_devices after the reply: "ok" (data["devices"] is returned), or
\* the exception raised
async_get_devices(response) ==
    IF post(response) # "data" THEN post(response)
    ELSE IF ~response.statu \/ ~response.field THEN "UpdateFailed"
    ELSE "ok"

\* async_set_work_mode before the request: the token check
set_work_mode_guard(co) == IF co.token = NoToken THEN "ValueError" ELSE "request"

\* async_set_work_mode after the reply: an exception of post/json is raised;
\* an envelope whose statu is false is only logged
async_set_work_mode(response) ==
    IF post(response) # "data" THEN post(response) ELSE "ok"

---------------------------------------------------------------------------
(* The coordinator's poll budget *)

\* `super().update_interval = value` (coordinator.py lines 72 and 79): a
\* super() proxy has no attribute setter, so the statement raises
\* AttributeError and the interval keeps its value.
super_set_update_interval(co, value) == co

\* async_refresh when _update_retry_count >= 1 (lines 67-73): the call uses up
\* one unit of the budget and returns without fetching.
async_refresh_budget(co) ==
    LET c1 == [co EXCEPT !.device_still_wants_refresh = FALSE,
                         !.update_retry_count = @ - 1]
    IN IF c1.update_retry_count = 0
       THEN super_set_update_interval(c1, normal_update_interval)
       ELSE c1

\* async_refresh after `await super().async_refresh()` returned (lines 75-79)
async_refresh_after(co) ==
    IF ~co.device_still_wants_refresh
    THEN super_set_update_interval([co EXCEPT !.update_retry_count = 0],
                                   normal_update_interval)
    ELSE co

\* async_request_refresh (lines 55-62).  super().async_request_refresh() hands
\* async_refresh to the host's debouncer, which calls it at once (immediate)
\* or, inside its cooldown, later (see DebouncedRefresh).  Called at once,
\* async_refresh finds the budget just set (>= 1) and takes the budget branch.
async_request_refresh(co, immediate) ==
    LET c1 == [co EXCEPT !.update_retry_count = MAX_HIGH_FREQUENCY_POLL_COUNT,
                         !.update_interval = HighFrequencyInterval]
    IN IF immediate THEN async_refresh_budget(c1) ELSE c1

---------------------------------------------------------------------------
(* EsiClimate *)

\* the parameters of the set-work-mode request an entity has in flight
NoRequest == [work_mode |-> None, temperature |-> None]

\* (variant: the table without its entry for CLIMATE_WORK_MODE_OFF)
WORK_MODE_TO_HVAC_without_off(work_mode) ==
    CASE work_mode = CLIMATE_WORK_MODE_MANUAL -> HEAT
      [] work_mode = CLIMATE_WORK_MODE_AUTO -> AUTO
      [] work_mode = CLIMATE_WORK_MODE_AUTO_TEMP_OVERRIDE -> AUTO
      [] OTHER -> HEAT

\* EsiClimate.WORK_MODE_TO_HVAC.get(work_mode, HVACMode.HEAT)
WORK_MODE_TO_HVAC(work_mode) ==
    CASE work_mode = CLIMATE_WORK_MODE_MANUAL -> HEAT
      [] work_mode = CLIMATE_WORK_MODE_AUTO -> AUTO
      [] work_mode = CLIMATE_WORK_MODE_AUTO_TEMP_OVERRIDE -> AUTO
      [] work_mode = CLIMATE_WORK_MODE_OFF -> OFF
      [] OTHER -> HEAT

\* EsiClimate.HVAC_TO_WORK_MODE.get(target_mode, CLIMATE_WORK_MODE_MANUAL)
HVAC_TO_WORK_MODE(hvac) ==
    CASE hvac = HEAT -> CLIMATE_WORK_MODE_MANUAL
      [] hvac = AUTO -> CLIMATE_WORK_MODE_AUTO
      [] hvac = OFF -> CLIMATE_WORK_MODE_OFF
      [] OTHER -> CLIMATE_WORK_MODE_MANUAL

\* `int(work_mode) if work_mode is not None else CLIMATE_WORK_MODE_AUTO`
climate_work_mode_of(device) ==
    IF device.work_mode = None THEN CLIMATE_WORK_MODE_AUTO ELSE device.work_mode

\* the fields __init__ sets before it looks at the device, and the processor
\* task waiting on the empty queue; in_flight counts the set-work-mode
\* requests of the entity that await their reply; commanded and last_event
\* are records for inspection
ClimateNew ==
    [last_confirmed_temp |-> None, last_confirmed_mode |-> NoMode,
     last_confirmed_work_mode |-> None,
     pending_temperature |-> None, pending_hvac_mode |-> NoMode,
     is_mode_change |-> FALSE,
     queue |-> 0, pc |-> "wait", target_mode |-> NoMode, request |-> NoRequest,
     in_flight |-> 0, commanded |-> None, last_event |-> "none"]

\* EsiClimate.__init__: the confirmed state is taken from the device if it is
\* in coordinator.data and its temperature parses
climate_init(dat) ==
    LET device == get_device(dat, ClimateId)
    IN IF ~device.present \/ device.temp = Bad THEN ClimateNew
       ELSE [ClimateNew EXCEPT
                !.last_confirmed_temp = from_api(device.temp),
                !.last_confirmed_work_mode = climate_work_mode_of(device),
                !.last_confirmed_mode = WORK_MODE_TO_HVAC(climate_work_mode_of(device))]

\* EsiClimate.hvac_mode
hvac_mode(c, dat) ==
    LET device == get_device(dat, ClimateId)
    IN IF c.pending_hvac_mode # NoMode THEN c.pending_hvac_mode
       ELSE IF c.last_confirmed_mode # NoMode THEN c.last_confirmed_mode
       ELSE IF device.present THEN WORK_MODE_TO_HVAC(climate_work_mode_of(device))
       ELSE HEAT

\* (variant: the confirmed temperature is looked at first)
target_temperature_confirmed_first(c, dat) ==
    LET device == get_device(dat, ClimateId)
    IN IF c.last_confirmed_temp # None THEN c.last_confirmed_temp
       ELSE IF c.pending_temperature # None THEN c.pending_temperature
       ELSE IF device.present /\ device.temp # Bad THEN from_api(device.temp)
       ELSE None

\* EsiClimate.target_temperature
target_temperature(c, dat) ==
    LET device == get_device(dat, ClimateId)
    IN IF c.pending_temperature # None THEN c.pending_temperature
       ELSE IF c.last_confirmed_temp # None THEN c.last_confirmed_temp
       ELSE IF device.present /\ device.temp # Bad THEN from_api(device.temp)
       ELSE None

\* (variant: a difference of exactly 0.5 degrees confirms too)
climate_temp_confirmed_inclusive(device_temp, pending) ==
    pending # None /\ Abs(device_temp - pending) <= 50

\* the test that clears a pending temperature in _handle_coordinator_update
climate_temp_confirmed(device_temp, pending) ==
    pending # None /\ Abs(device_temp - pending) < 50

\* EsiClimate._handle_coordinator_update
climate_handle_coordinator_update(c, dat) ==
    LET device == get_device(dat, ClimateId)
        device_temp == from_api(device.temp)
        device_work_mode == climate_work_mode_of(device)
        device_mode == WORK_MODE_TO_HVAC(device_work_mode)
    IN IF ~device.present THEN c
       ELSE IF device.temp = Bad THEN c
       ELSE [c EXCEPT
                !.last_confirmed_temp = device_temp,
                !.last_confirmed_mode = device_mode,
                !.last_confirmed_work_mode = device_work_mode,
                !.pending_temperature =
                    IF climate_temp_confirmed(device_temp, @) THEN None ELSE @,
                !.pending_hvac_mode =
                    IF @ # NoMode /\ device_mode = @ THEN NoMode ELSE @]

\* _async_perform_update, lines 304-312: the temperature to send
perform_target_temp(c, dat) ==
    LET device == get_device(dat, ClimateId)
        fallback == IF c.last_confirmed_temp # None THEN c.last_confirmed_temp
                    ELSE from_api(200)
    IN IF c.pending_hvac_mode = AUTO /\ c.pending_temperature = None
       THEN IF device.present /\ device.temp # Bad THEN from_api(device.temp)
            ELSE fallback
       ELSE c.pending_temperature

\* _async_perform_update, lines 314-325: the work mode to send
perform_work_mode(c, dat) ==
    IF c.pending_hvac_mode = AUTO
    THEN IF ~c.is_mode_change /\ hvac_mode(c, dat) = AUTO
         THEN CLIMATE_WORK_MODE_AUTO_TEMP_OVERRIDE
         ELSE CLIMATE_WORK_MODE_AUTO
    ELSE HVAC_TO_WORK_MODE(c.pending_hvac_mode)

\* _async_perform_update, lines 327-331: the temperature in API format
perform_api_temp(c, dat) ==
    IF perform_target_temp(c, dat) = None THEN None
    ELSE to_api(perform_target_temp(c, dat))

\* _async_perform_update, lines 350-356: the except branch's rollback
climate_rollback(c) ==
    [c EXCEPT !.pending_temperature = None, !.pending_hvac_mode = NoMode,
              !.is_mode_change = FALSE]

---------------------------------------------------------------------------
(* EsiWaterHeater *)

\* EsiWaterHeater.WORK_MODE_TO_OPERATION.get(work_mode, STATE_OFF); the
\* dictionary has an entry for None
WORK_MODE_TO_OPERATION(work_mode) ==
    CASE work_mode = None -> STATE_OFF
      [] work_mode = WATERHEATER_WORK_MODE_AUTO -> OPERATION_AUTO
      [] work_mode = WATERHEATER_WORK_MODE_AUTO_TEMP_OVERRIDE -> OPERATION_AUTO
      [] work_mode = WATERHEATER_WORK_MODE_BOOST -> STATE_ON
      [] work_mode = WATERHEATER_WORK_MODE_MANUAL -> STATE_ON
      [] work_mode = WATERHEATER_WORK_MODE_OFF -> STATE_OFF
      [] OTHER -> STATE_OFF

\* EsiWaterHeater.OPERATION_TO_WORK_MODE.get(operation_mode, WATERHEATER_WORK_MODE_AUTO)
OPERATION_TO_WORK_MODE(operation_mode) ==
    CASE operation_mode = OPERATION_AUTO -> WATERHEATER_WORK_MODE_AUTO
      [] operation_mode = OPERATION_AUTO_OVERRIDE ->
             WATERHEATER_WORK_MODE_AUTO_TEMP_OVERRIDE
      [] operation_mode = OPERATION_BOOST -> WATERHEATER_WORK_MODE_BOOST
      [] operation_mode = STATE_OFF -> WATERHEATER_WORK_MODE_OFF
      [] operation_mode = STATE_ON -> WATERHEATER_WORK_MODE_MANUAL
      [] OTHER -> WATERHEATER_WORK_MODE_AUTO

\* _attr_operation_list
operation_list == {STATE_OFF, OPERATION_AUTO, STATE_ON}

\* _attr_min_temp, 25.0 degrees
heater_min_temp == from_api(250)

\* the fields __init__ sets before it looks at the device
HeaterNew ==
    [last_confirmed_target_temp |-> None, last_confirmed_work_mode |-> None,
     pending_target_temperature |-> None, pending_work_mode |-> None,
     is_state_change |-> FALSE, current_operation |-> STATE_OFF,
     initial_update_interval |-> normal_update_interval,
     queue |-> 0, pc |-> "wait", request |-> NoRequest, in_flight |-> 0,
     last_event |-> "none"]

\* EsiWaterHeater.__init__
heater_init(dat, co) ==
    LET device == get_device(dat, HeaterId)
        h1 == [HeaterNew EXCEPT !.initial_update_interval = co.update_interval]
        h2 == IF ~device.present THEN h1
              ELSE [h1 EXCEPT
                      !.last_confirmed_target_temp =
                          IF device.temp = Bad THEN None ELSE from_api(device.temp),
                      !.last_confirmed_work_mode = device.work_mode]
    IN [h2 EXCEPT !.current_operation =
                      WORK_MODE_TO_OPERATION(h2.last_confirmed_work_mode)]

\* EsiWaterHeater.target_temperature: the value returned
heater_target_temperature(h, dat) ==
    LET device == get_device(dat, HeaterId)
    IN IF h.pending_target_temperature # None THEN h.pending_target_temperature
       ELSE IF h.last_confirmed_target_temp # None THEN h.last_confirmed_target_temp
       ELSE IF device.present /\ device.temp # Bad THEN from_api(device.temp)
       ELSE None

\* EsiWaterHeater.target_temperature: the entity after the read (lines 227-235
\* store the device's temperature in _last_confirmed_target_temp)
heater_after_read(h, dat) ==
    LET device == get_device(dat, HeaterId)
    IN IF /\ h.pending_target_temperature = None
          /\ h.last_confirmed_target_temp = None
          /\ device.present /\ device.temp # Bad
       THEN [h EXCEPT !.last_confirmed_target_temp = from_api(device.temp)]
       ELSE h

\* EsiWaterHeater._enqueue_update: the queue is emptied, then one request is put
heater_enqueue_update(h) == [h EXCEPT !.queue = 1]

\* EsiWaterHeater._handle_coordinator_update: the entity after it
heater_handle_coordinator_update(h, dat) ==
    LET device == get_device(dat, HeaterId)
        h1 == [h EXCEPT
                 !.last_confirmed_target_temp =
                     IF device.temp = Bad THEN None ELSE from_api(device.temp),
                 !.last_confirmed_work_mode =
                     IF device.work_mode # None THEN device.work_mode ELSE @]
        h2 == [h1 EXCEPT !.current_operation =
                             WORK_MODE_TO_OPERATION(h1.last_confirmed_work_mode)]
        h3 == [h2 EXCEPT
                 !.pending_target_temperature =
                     IF @ # None /\ h2.last_confirmed_target_temp = @ THEN None ELSE @,
                 !.pending_work_mode =
                     IF @ # None /\ h2.last_confirmed_work_mode = @ THEN None ELSE @]
    IN IF ~device.present THEN h
       ELSE IF h3.pending_target_temperature = None /\ h3.pending_work_mode = None
            THEN h3
            ELSE heater_enqueue_update(h3)

\* EsiWaterHeater._handle_coordinator_update, lines 429-433: the coordinator
\* after it (h is the entity after the update)
heater_reset_interval(h, dat, co) ==
    IF /\ get_device(dat, HeaterId).present
       /\ h.pending_target_temperature = None /\ h.pending_work_mode = None
       /\ co.update_interval # h.initial_update_interval
    THEN [co EXCEPT !.update_interval = h.initial_update_interval]
    ELSE co

\* async_set_water_heater_mode, up to the enqueue
heater_set_mode(h, work_mode) ==
    [h EXCEPT !.pending_work_mode = work_mode,
              !.is_state_change = TRUE,
              !.current_operation = WORK_MODE_TO_OPERATION(work_mode)]

\* EsiWaterHeater.async_set_temperature, up to the enqueue
heater_set_temperature(h, temperature) ==
    LET pwm == IF h.pending_work_mode = None THEN h.last_confirmed_work_mode
               ELSE h.pending_work_mode
    IN [h EXCEPT !.pending_work_mode = WATERHEATER_WORK_MODE_MANUAL,
                 !.pending_target_temperature = temperature,
                 !.is_state_change =
                     IF pwm # WATERHEATER_WORK_MODE_MANUAL THEN TRUE ELSE @,
                 !.current_operation =
                     WORK_MODE_TO_OPERATION(WATERHEATER_WORK_MODE_MANUAL)]

\* _async_perform_update, lines 331-345: the entity after the OFF / AUTO branches
heater_perform_prepare(h) ==
    IF h.pending_work_mode \in {WATERHEATER_WORK_MODE_OFF, WATERHEATER_WORK_MODE_AUTO}
    THEN [h EXCEPT !.pending_target_temperature = None,
                   !.last_confirmed_target_temp = None]
    ELSE h

\* _async_perform_update, lines 324-351: the temperature sent, in API format
heater_perform_api_temp(h) ==
    LET target_temp ==
            CASE h.pending_work_mode = WATERHEATER_WORK_MODE_OFF -> None
              [] h.pending_work_mode = WATERHEATER_WORK_MODE_AUTO ->
                     h.last_confirmed_target_temp
              [] OTHER -> h.pending_target_temperature
    IN to_api(IF target_temp = None THEN heater_min_temp ELSE target_temp)

\* _async_perform_update, lines 366-372: the except branch's rollback
heater_rollback(h) ==
    [h EXCEPT !.pending_target_temperature = None, !.pending_work_mode = None,
              !.is_state_change = FALSE]

\* (variant: a request is put without the queue being emptied)
climate_enqueue_update_keeping(c) == [c EXCEPT !.queue = @ + 1]

\* EsiClimate._enqueue_update: the queue is emptied, then one request is put
climate_enqueue_update(c) == [c EXCEPT !.queue = 1]

\* EsiClimate.async_set_hvac_mode, up to the enqueue
climate_set_hvac_mode(c, mode) ==
    [c EXCEPT !.pending_hvac_mode = mode,
              !.is_mode_change = TRUE,
              !.pending_temperature = IF mode = OFF THEN from_api(50) ELSE None]

\* EsiClimate.async_set_temperature, up to the enqueue
climate_set_temperature(c, dat, temperature) ==
    LET c1 == [c EXCEPT !.pending_temperature = temperature,
                        !.is_mode_change = FALSE]
        current_mode == hvac_mode(c1, dat)
    IN CASE current_mode = OFF ->
                [c1 EXCEPT !.pending_hvac_mode = HEAT, !.is_mode_change = TRUE]
         [] current_mode = AUTO -> [c1 EXCEPT !.pending_hvac_mode = AUTO]
         [] OTHER -> [c1 EXCEPT !.pending_hvac_mode = HEAT]

\* what a call of async_set_temperature can be given: a temperature, or none
TemperatureArgs == UserTemps \cup {None}

\* EsiClimate.async_set_temperature: a call without a temperature returns at
\* once
climate_async_set_temperature(c, dat, temperature) ==
    IF temperature = None THEN c
    ELSE climate_enqueue_update(climate_set_temperature(c, dat, temperature))

---------------------------------------------------------------------------
(* What is recorded for inspection; the program reads none of it *)

\* the last thing that happened to an entity: "none" (a command of the user,
\* the processor taking a request), the kind of the reply its set-work-mode
\* request got ("raised" also when the request was refused for want of a
\* token), or "update" (the poll cycle that ended last was successful and
\* _handle_coordinator_update ran)
Event(e) == IF observe = "events" THEN e ELSE "none"

Observed(c, e) == IF observe = "commands" THEN c
                  ELSE [c EXCEPT !.last_event = Event(e)]

\* under "commands" the thermostat records the user's last command instead,
\* until the processor takes its request or a send fails: last_event is the
\* command ("set_hvac_mode", or "set_temperature_off", "set_temperature_heat",
\* "set_temperature_auto" by the hvac_mode the temperature was set in), with
\* "_busy" added if an update was being performed when it came; commanded is
\* the temperature of an async_set_temperature
Commanded(c, e, temperature) ==
    IF observe = "commands"
    THEN [c EXCEPT !.last_event = e, !.commanded = temperature]
    ELSE c

set_hvac_mode_event(c) ==
    IF c.pc = "wait" THEN "set_hvac_mode" ELSE "set_hvac_mode_busy"

set_temperature_event(c, dat) ==
    CASE hvac_mode(c, dat) = OFF ->
             IF c.pc = "wait" THEN "set_temperature_off"
             ELSE "set_temperature_off_busy"
      [] hvac_mode(c, dat) = AUTO ->
             IF c.pc = "wait" THEN "set_temperature_auto"
             ELSE "set_temperature_auto_busy"
      [] OTHER ->
             IF c.pc = "wait" THEN "set_temperature_heat"
             ELSE "set_temperature_heat_busy"

Settled(c) ==
    IF observe = "commands"
    THEN [c EXCEPT !.last_event = "none", !.commanded = None]
    ELSE c

\* a poll cycle ended without the listeners being told
Unnotified(c) == IF c.last_event = "update" THEN [c EXCEPT !.last_event = "none"]
                 ELSE c

---------------------------------------------------------------------------
(* The config flow and the platforms' setup *)

\* the exception an HTTP exchange can end with, and the one reading a body
\* that is not JSON can end with (aiohttp.ContentTypeError is a ClientError,
\* json.JSONDecodeError a ValueError)
ExchangeErrors == {"ClientError", "TimeoutError"}
BodyErrors == {"ClientError", "ValueError"}

\* the exceptions that can go with a reply
ErrorsOf(response) ==
    IF response.raised THEN ExchangeErrors
    ELSE IF response.status = 200 /\ ~response.is_json THEN BodyErrors
    ELSE {"none"}

\* (variant: the user token is not looked for)
test_credentials_any_user(response, error) ==
    IF response.raised THEN error
    ELSE IF response.status # 200 THEN "invalid"
    ELSE IF ~response.is_json THEN error
    ELSE IF response.statu THEN "valid"
    ELSE "invalid"

\* ESIThermostatConfigFlow._test_credentials: "valid" (a truthy result),
\* "invalid" (a falsy one) or the exception raised
test_credentials(response, error) ==
    IF response.raised THEN error
    ELSE IF response.status # 200 THEN "invalid"
    ELSE IF ~response.is_json THEN error
    ELSE IF response.statu /\ response.field THEN "valid"
    ELSE "invalid"

\* the flow as async_step_user(None) leaves it: the form, no error; response
\* and error record the reply the last credential test got
FlowNew == [pc |-> "form", errors |-> "none", entry |-> FALSE,
            response |-> NoReply, error |-> "none"]

\* the flow of a config entry that exists
FlowEntry == [FlowNew EXCEPT !.pc = "done", !.entry = TRUE]

\* const.py
DEVICE_TYPES_CLIMATE == {"80"}
DEVICE_TYPES_WATERHEATER == {"81"}

\* the device types a list can hold: the two known ones and another
DeviceTypes == DEVICE_TYPES_CLIMATE \cup DEVICE_TYPES_WATERHEATER \cup {"82"}

\* the device lists of up to MaxDevices devices; a device's id is its place
TypedLists ==
    UNION {{[i \in 1..n |-> [device_id |-> i, device_type |-> types[i]]] :
                types \in [1..n -> DeviceTypes]} : n \in 0..MaxDevices}

\* (variant: invalid_device_types is not tested for emptiness)
get_unguarded(devices, valid_device_types, invalid_device_types) ==
    LET keep(device) ==
            (valid_device_types # {} /\ device.device_type \in valid_device_types)
            # (device.device_type \notin invalid_device_types)
    IN SelectSeq(devices, keep)

\* ESIDataUpdateCoordinator.get: ^ on two bools is their inequality
get(devices, valid_device_types, invalid_device_types) ==
    LET keep(device) ==
            (valid_device_types # {} /\ device.device_type \in valid_device_types)
            # (/\ invalid_device_types # {}
               /\ device.device_type \notin invalid_device_types)
    IN SelectSeq(devices, keep)

\* the entities a platform's async_setup_entry makes of the devices it got:
\* one per device, named by the device's id
entities_of(devices) == [i \in 1..Len(devices) |-> devices[i].device_id]

NoPlatforms == [polled |-> FALSE, devices |-> <<>>,
                climate_done |-> FALSE, climate |-> <<>>,
                water_heater_done |-> FALSE, water_heater |-> <<>>]

---------------------------------------------------------------------------
(* Initial state: the coordinator as __init__ leaves it, no entity yet *)

CoordNew ==
    [token |-> NoToken, user_id |-> NoToken,
     update_retry_count |-> 0,
     update_interval |-> normal_update_interval,
     device_still_wants_refresh |-> FALSE]

Idle == [pc |-> "idle", caller |-> "none"]

InitWith(accounts, obs) ==
    /\ account \in accounts
    /\ observe = obs
    /\ coord = CoordNew
    /\ data = NoData
    /\ last_update_result = "none"
    /\ poll = Idle
    /\ loginResp = NoReply
    /\ devResp = NoReply
    /\ entities = {}
    /\ climate = ClimateNew
    /\ heater = HeaterNew
    /\ flow = FlowEntry
    /\ platforms = NoPlatforms

---------------------------------------------------------------------------
(* The poll cycle: _async_update_data and what the host does with its result *)

\* the listeners' _handle_coordinator_update calls, on coordinator.data = dat
NotifyListeners(dat, co) ==
    LET h == IF HeaterId \in entities
             THEN Observed(heater_handle_coordinator_update(heater, dat), "update")
             ELSE heater
    IN /\ climate' = IF ClimateId \in entities
                     THEN Observed(climate_handle_coordinator_update(climate, dat),
                                   "update")
                     ELSE climate
       /\ heater' = h
       /\ coord' = IF HeaterId \in entities THEN heater_reset_interval(h, dat, co)
                   ELSE co

\* (variant: the cycle goes to the device-list request whatever the token)
StartCycle_without_login(caller) ==
    /\ poll.pc = "idle"
    /\ poll' = [pc |-> "devices", caller |-> caller]
    /\ loginResp' = IF observe = "replies" THEN NoReply ELSE loginResp
    /\ devResp' = IF observe = "replies" THEN NoReply ELSE devResp

\* _async_update_data up to its first HTTP request: the login when there is
\* no token, else the device-list request
StartCycle(caller) ==
    /\ poll.pc = "idle"
    /\ poll' = [pc |-> IF coord.token = NoToken THEN "login" ELSE "devices",
                caller |-> caller]
    /\ loginResp' = IF observe = "replies" THEN NoReply ELSE loginResp
    /\ devResp' = IF observe = "replies" THEN NoReply ELSE devResp

\* _async_update_data raised UpdateFailed.  The first refresh of the setup
\* then raises ConfigEntryNotReady and the host retries the setup with a new
\* coordinator; otherwise the host keeps the old data.  (The host also tells
\* the listeners when the update before had succeeded: they then see the old
\* data again, which is what a successful poll with the same list shows them.)
CycleFailed(co) ==
    /\ poll' = Idle
    /\ last_update_result' = IF observe = "replies" THEN "UpdateFailed"
                           ELSE last_update_result
    /\ coord' = CASE poll.caller = "first" -> CoordNew
                  [] poll.caller = "refresh" -> async_refresh_after(co)
                  [] OTHER -> co
    /\ climate' = Unnotified(climate)
    /\ heater' = Unnotified(heater)
    /\ UNCHANGED <<data, entities>>

\* _async_update_data returned {"devices": devices}.  After the first refresh
\* the platforms construct one entity per device of the list; later the
\* listeners are told, and async_refresh runs its lines 75-79.
CycleSucceeded(co, devices) ==
    LET dat == [loaded |-> TRUE, devices |-> devices]
    IN /\ poll' = Idle
       /\ data' = dat
       /\ last_update_result' = IF observe = "replies" THEN "ok"
                              ELSE last_update_result
       /\ IF poll.caller = "first"
          THEN /\ entities' = {d \in account : devices[d].present}
               /\ climate' = climate_init(dat)
               /\ heater' = heater_init(dat, co)
               /\ coord' = co
          ELSE /\ UNCHANGED entities
               /\ NotifyListeners(dat, IF poll.caller = "refresh"
                                       THEN async_refresh_after(co) ELSE co)

\* async_config_entry_first_refresh, called by async_setup_entry
FirstRefresh ==
    /\ ~data.loaded
    /\ StartCycle("first")
    /\ UNCHANGED <<account, observe, flow, platforms, coord, data, last_update_result, entities,
                   climate, heater>>

\* the host's scheduled refresh (every update_interval while entities listen),
\* which runs _async_update_data without going through async_refresh
ScheduledRefresh ==
    /\ entities # {}
    /\ StartCycle("timer")
    /\ UNCHANGED <<account, observe, flow, platforms, coord, data, last_update_result, entities,
                   climate, heater>>

\* ESIDataUpdateCoordinator.async_refresh, called by the host: up to the
\* fetch it starts, if it starts one
async_refresh ==
    /\ entities # {}
    /\ IF coord.update_retry_count >= 1
       THEN /\ coord' = async_refresh_budget(coord)
            /\ UNCHANGED <<poll, loginResp, devResp>>
       ELSE /\ StartCycle("refresh")
            /\ coord' = [coord EXCEPT !.device_still_wants_refresh = FALSE]
    /\ UNCHANGED <<account, observe, flow, platforms, data, last_update_result, entities,
                   climate, heater>>

\* the host's debouncer calls async_refresh for a refresh that was requested
\* inside its cooldown: the budget is then as async_request_refresh set it
DebouncedRefresh ==
    /\ coord.update_retry_count = MAX_HIGH_FREQUENCY_POLL_COUNT
    /\ async_refresh

\* the login's reply arrives: _async_login ends, and on success
\* _async_get_devices sends its request
LoginReply(response) ==
    /\ poll.pc = "login"
    /\ loginResp' = IF observe = "replies" THEN response ELSE loginResp
    /\ UNCHANGED <<account, observe, flow, platforms, devResp>>
    /\ IF async_login(response) = "ok"
       THEN LET co == [coord EXCEPT
                           !.token = IF response.field THEN "token" ELSE NoToken,
                           !.user_id = "id"]
            IN IF get_devices_guard(co) = "request"
               THEN /\ coord' = co
                    /\ poll' = [poll EXCEPT !.pc = "devices"]
                    /\ UNCHANGED <<data, last_update_result, entities, climate,
                                   heater>>
               ELSE CycleFailed(co)
       ELSE CycleFailed(coord)

\* the device list's reply arrives: _async_get_devices and _async_update_data end
DevicesReply(response, devices) ==
    /\ poll.pc = "devices"
    /\ devResp' = IF observe = "replies" THEN response ELSE devResp
    /\ UNCHANGED <<account, observe, flow, platforms, loginResp>>
    /\ IF async_get_devices(response) = "ok"
       THEN CycleSucceeded(coord, devices)
       ELSE /\ devices = NoDevices
            /\ CycleFailed(coord)

---------------------------------------------------------------------------
(* EsiClimate: the user's commands and the processor task *)

\* (variant: the next request is taken while the last one awaits its reply)
processor_waiting_or_sending(pc) == pc \in {"wait", "sending"}

\* _process_updates: the one processor task of an entity is at
\* `await self._update_queue.get()`, _async_perform_update having returned
processor_waiting(pc) == pc = "wait"

CoordinatorOnly == <<account, observe, flow, platforms, data, last_update_result, poll,
                     loginResp, devResp, entities>>

\* EsiClimate.async_set_hvac_mode
ClimateSetHvacMode(mode) ==
    /\ ClimateId \in entities
    /\ climate' = Commanded(Observed(climate_enqueue_update(
                                          climate_set_hvac_mode(climate, mode)),
                                      "none"),
                             set_hvac_mode_event(climate), None)
    /\ UNCHANGED <<CoordinatorOnly, coord, heater>>

\* EsiClimate.async_set_temperature, with a temperature or without
ClimateSetTemperature(temperature) ==
    /\ ClimateId \in entities
    /\ climate' =
           IF temperature = None
           THEN climate_async_set_temperature(climate, data, temperature)
           ELSE Commanded(Observed(climate_async_set_temperature(climate, data,
                                                                 temperature),
                                   "none"),
                          set_temperature_event(climate, data), temperature)
    /\ UNCHANGED <<CoordinatorOnly, coord, heater>>

\* _process_updates takes a request off the queue and _async_perform_update
\* runs up to the HTTP request of async_set_work_mode; without a pending mode
\* it returns, without a token it raises and the except branch runs
ClimateProcessUpdate ==
    /\ ClimateId \in entities
    /\ processor_waiting(climate.pc)
    /\ climate.queue > 0
    /\ LET c0 == Settled(Observed([climate EXCEPT !.queue = @ - 1], "none"))
       IN IF c0.pending_hvac_mode = NoMode
          THEN /\ climate' = c0
               /\ UNCHANGED coord
          ELSE IF set_work_mode_guard(coord) = "request"
          THEN /\ climate' = [c0 EXCEPT
                                !.pc = "sending",
                                !.in_flight = @ + 1,
                                !.target_mode = c0.pending_hvac_mode,
                                !.request =
                                    [work_mode |-> perform_work_mode(c0, data),
                                     temperature |-> perform_api_temp(c0, data)]]
               /\ UNCHANGED coord
          ELSE /\ climate' = Observed(climate_rollback(c0), "raised")
               /\ \E immediate \in BOOLEAN :
                      coord' = async_request_refresh(coord, immediate)
    /\ UNCHANGED <<CoordinatorOnly, heater>>

\* the reply to the set-work-mode request arrives: _async_perform_update goes
\* on to the refresh request and, for AUTO, to the 3 second sleep; or the
\* except branch runs
ClimateSendReply(response) ==
    /\ climate.pc = "sending"
    /\ LET c0 == Observed([climate EXCEPT !.request = NoRequest,
                                           !.in_flight = @ - 1],
                          reply_kind(response))
       IN IF async_set_work_mode(response) = "ok"
          THEN climate' = IF c0.target_mode = AUTO
                          THEN [c0 EXCEPT !.pc = "sleep"]
                          ELSE [c0 EXCEPT !.pc = "wait", !.target_mode = NoMode,
                                          !.is_mode_change = FALSE]
          ELSE climate' = [Settled(climate_rollback(c0)) EXCEPT
                              !.pc = "wait", !.target_mode = NoMode]
    /\ \E immediate \in BOOLEAN : coord' = async_request_refresh(coord, immediate)
    /\ UNCHANGED <<CoordinatorOnly, heater>>

\* asyncio.sleep(3.0) is over: the second refresh request of AUTO
ClimateSleepDone ==
    /\ climate.pc = "sleep"
    /\ climate' = [climate EXCEPT !.pc = "wait", !.target_mode = NoMode,
                                  !.is_mode_change = FALSE]
    /\ \E immediate \in BOOLEAN : coord' = async_request_refresh(coord, immediate)
    /\ UNCHANGED <<CoordinatorOnly, heater>>

---------------------------------------------------------------------------
(* EsiWaterHeater: the user's commands and the processor task *)

\* EsiWaterHeater._async_enqueue_update: one more request is put
heater_async_enqueue_update(h) == [h EXCEPT !.queue = @ + 1]

\* EsiWaterHeater.async_set_water_heater_mode
async_set_water_heater_mode(work_mode) ==
    /\ HeaterId \in entities
    /\ heater.queue < MaxQueue
    /\ heater' = Observed(heater_async_enqueue_update(
                               heater_set_mode(heater, work_mode)), "none")
    /\ UNCHANGED <<CoordinatorOnly, coord, climate>>

\* EsiWaterHeater.async_turn_on
HeaterTurnOn == async_set_water_heater_mode(WATERHEATER_WORK_MODE_MANUAL)

\* EsiWaterHeater.async_turn_off
HeaterTurnOff == async_set_water_heater_mode(WATERHEATER_WORK_MODE_OFF)

\* EsiWaterHeater.async_set_operation_mode
HeaterSetOperationMode(operation_mode) ==
    async_set_water_heater_mode(OPERATION_TO_WORK_MODE(operation_mode))

\* EsiWaterHeater.async_set_temperature with a temperature
HeaterSetTemperature(temperature) ==
    /\ HeaterId \in entities
    /\ heater.queue < MaxQueue
    /\ heater' = Observed(heater_async_enqueue_update(
                               heater_set_temperature(heater, temperature)), "none")
    /\ UNCHANGED <<CoordinatorOnly, coord, climate>>

\* the host reads EsiWaterHeater.target_temperature
HeaterReadTargetTemperature ==
    /\ HeaterId \in entities
    /\ heater' = heater_after_read(heater, data)
    /\ UNCHANGED <<CoordinatorOnly, coord, climate>>

\* _process_updates takes a request off the queue and _async_perform_update
\* runs up to the HTTP request of async_set_work_mode
HeaterProcessUpdate ==
    /\ HeaterId \in entities
    /\ processor_waiting(heater.pc)
    /\ heater.queue > 0
    /\ LET h0 == Observed([heater EXCEPT !.queue = @ - 1], "none")
           h1 == heater_perform_prepare(h0)
       IN IF h0.pending_work_mode = None
          THEN /\ heater' = h0
               /\ UNCHANGED coord
          ELSE IF set_work_mode_guard(coord) = "request"
          THEN /\ heater' = [h1 EXCEPT
                               !.pc = "sending",
                               !.in_flight = @ + 1,
                               !.request =
                                   [work_mode |-> h0.pending_work_mode,
                                    temperature |-> heater_perform_api_temp(h0)]]
               /\ UNCHANGED coord
          ELSE /\ heater' = Observed(heater_rollback(h1), "raised")
               /\ \E immediate \in BOOLEAN :
                      coord' = async_request_refresh(coord, immediate)
    /\ UNCHANGED <<CoordinatorOnly, climate>>

\* the reply to the set-work-mode request arrives: the interval is set to
\* 2 seconds and a refresh is requested; or the except branch runs
HeaterSendReply(response) ==
    /\ heater.pc = "sending"
    /\ LET h0 == Observed([heater EXCEPT !.request = NoRequest, !.pc = "wait",
                                          !.in_flight = @ - 1],
                          reply_kind(response))
       IN IF async_set_work_mode(response) = "ok"
          THEN /\ heater' = [h0 EXCEPT !.is_state_change = FALSE]
               /\ \E immediate \in BOOLEAN :
                      coord' = async_request_refresh(
                                   [coord EXCEPT !.update_interval =
                                                     HeaterConfirmInterval],
                                   immediate)
          ELSE /\ heater' = heater_rollback(h0)
               /\ \E immediate \in BOOLEAN :
                      coord' = async_request_refresh(coord, immediate)
    /\ UNCHANGED <<CoordinatorOnly, climate>>

---------------------------------------------------------------------------
(* The config flow's and the platforms' steps *)

CoordinatorAndEntities == <<account, observe, coord, data, last_update_result,
                            poll, loginResp, devResp, entities, climate, heater>>

\* async_step_user with the user's input, up to the login request of
\* _test_credentials
FlowSubmit ==
    /\ flow.pc = "form"
    /\ flow' = [flow EXCEPT !.pc = "testing", !.response = NoReply,
                            !.error = "none"]
    /\ UNCHANGED <<CoordinatorAndEntities, platforms>>

\* the login's reply arrives: _test_credentials and async_step_user end, with
\* the entry, with the form and an error, or with the exception
FlowReply(response, error) ==
    /\ flow.pc = "testing"
    /\ error \in ErrorsOf(response)
    /\ LET valid == test_credentials(response, error)
           f == [flow EXCEPT !.response = response, !.error = error]
       IN flow' = CASE valid = "valid" -> [f EXCEPT !.pc = "done", !.entry = TRUE]
                    [] valid = "invalid" ->
                           [f EXCEPT !.pc = "form",
                                     !.errors = "incorrect_email_or_password"]
                    [] valid = "ClientError" ->
                           [f EXCEPT !.pc = "form", !.errors = "cannot_connect"]
                    [] OTHER -> [f EXCEPT !.pc = "failed"]
    /\ UNCHANGED <<CoordinatorAndEntities, platforms>>

\* the first refresh of the entry's setup brought the device list
PlatformsPoll(devices) ==
    /\ flow.entry
    /\ ~platforms.polled
    /\ platforms' = [platforms EXCEPT !.polled = TRUE, !.devices = devices]
    /\ UNCHANGED <<CoordinatorAndEntities, flow>>

\* climate.async_setup_entry
ClimateSetup ==
    /\ platforms.polled
    /\ ~platforms.climate_done
    /\ platforms' = [platforms EXCEPT
                        !.climate_done = TRUE,
                        !.climate = entities_of(get(platforms.devices, {},
                                                    DEVICE_TYPES_WATERHEATER))]
    /\ UNCHANGED <<CoordinatorAndEntities, flow>>

\* water_heater.async_setup_entry
WaterHeaterSetup ==
    /\ platforms.polled
    /\ ~platforms.water_heater_done
    /\ platforms' = [platforms EXCEPT
                        !.water_heater_done = TRUE,
                        !.water_heater = entities_of(get(platforms.devices,
                                                         DEVICE_TYPES_WATERHEATER,
                                                         {}))]
    /\ UNCHANGED <<CoordinatorAndEntities, flow>>

---------------------------------------------------------------------------
(* Specifications *)

HvacModes == {HEAT, AUTO, OFF}

Next ==
    \/ FirstRefresh
    \/ ScheduledRefresh
    \/ DebouncedRefresh
    \/ \E response \in Replies : LoginReply(response)
    \/ \E response \in Replies, devices \in DeviceLists :
           DevicesReply(response, devices)
    \/ \E mode \in HvacModes : ClimateSetHvacMode(mode)
    \/ \E temperature \in TemperatureArgs : ClimateSetTemperature(temperature)
    \/ ClimateProcessUpdate
    \/ \E response \in CommandReplies : ClimateSendReply(response)
    \/ ClimateSleepDone
    \/ HeaterTurnOn
    \/ HeaterTurnOff
    \/ \E operation_mode \in operation_list : HeaterSetOperationMode(operation_mode)
    \/ \E temperature \in UserTemps : HeaterSetTemperature(temperature)
    \/ HeaterReadTargetTemperature
    \/ HeaterProcessUpdate
    \/ \E response \in CommandReplies : HeaterSendReply(response)

\* an account with one thermostat, or with one water heater
Init == InitWith({{ClimateId}, {HeaterId}}, "none")

Spec == Init /\ [][Next]_vars

\* a host that also calls async_refresh on its own, for an account with one
\* thermostat whose user changes the mode
NextHost ==
    \/ FirstRefresh
    \/ ScheduledRefresh
    \/ async_refresh
    \/ \E response \in Replies : LoginReply(response)
    \/ \E response \in Replies, devices \in DeviceLists :
           DevicesReply(response, devices)
    \/ \E mode \in HvacModes : ClimateSetHvacMode(mode)
    \/ ClimateProcessUpdate
    \/ \E response \in CommandReplies : ClimateSendReply(response)
    \/ ClimateSleepDone

InitHost == InitWith({{ClimateId}}, "none")

SpecHost == InitHost /\ [][NextHost]_vars

\* the thermostat, and the water heater, with the events of the entity
\* recorded
NextClimate ==
    \/ FirstRefresh
    \/ ScheduledRefresh
    \/ DebouncedRefresh
    \/ \E response \in Replies : LoginReply(response)
    \/ \E response \in Replies, devices \in DeviceLists :
           DevicesReply(response, devices)
    \/ \E mode \in HvacModes : ClimateSetHvacMode(mode)
    \/ \E temperature \in TemperatureArgs : ClimateSetTemperature(temperature)
    \/ ClimateProcessUpdate
    \/ \E response \in CommandReplies : ClimateSendReply(response)
    \/ ClimateSleepDone

InitClimate == InitWith({{ClimateId}}, "events")

SpecClimate == InitClimate /\ [][NextClimate]_vars

\* the thermostat, with the user's last command recorded
InitCommands == InitWith({{ClimateId}}, "commands")

SpecCommands == InitCommands /\ [][NextClimate]_vars

NextHeater ==
    \/ FirstRefresh
    \/ ScheduledRefresh
    \/ DebouncedRefresh
    \/ \E response \in Replies : LoginReply(response)
    \/ \E response \in Replies, devices \in DeviceLists :
           DevicesReply(response, devices)
    \/ HeaterTurnOn
    \/ HeaterTurnOff
    \/ \E operation_mode \in operation_list : HeaterSetOperationMode(operation_mode)
    \/ \E temperature \in UserTemps : HeaterSetTemperature(temperature)
    \/ HeaterReadTargetTemperature
    \/ HeaterProcessUpdate
    \/ \E response \in CommandReplies : HeaterSendReply(response)

InitHeater == InitWith({{HeaterId}}, "events")

SpecHeater == InitHeater /\ [][NextHeater]_vars

\* the config flow, then the platforms' setup over every typed device list
NextSetup ==
    \/ FlowSubmit
    \/ \E response \in Replies, error \in ExchangeErrors \cup BodyErrors \cup {"none"} :
           FlowReply(response, error)
    \/ \E devices \in TypedLists : PlatformsPoll(devices)
    \/ ClimateSetup
    \/ WaterHeaterSetup

InitSetup ==
    /\ account = {ClimateId}
    /\ observe = "none"
    /\ coord = CoordNew
    /\ data = NoData
    /\ last_update_result = "none"
    /\ poll = Idle
    /\ loginResp = NoReply
    /\ devResp = NoReply
    /\ entities = {}
    /\ climate = ClimateNew
    /\ heater = HeaterNew
    /\ flow = FlowNew
    /\ platforms = NoPlatforms

SpecSetup == InitSetup /\ [][NextSetup]_vars

\* the coordinator alone, observed: the replies of each poll cycle and its
\* result are recorded
NextPoll ==
    \/ FirstRefresh
    \/ ScheduledRefresh
    \/ \E response \in Replies : LoginReply(response)
    \/ \E response \in Replies, devices \in DeviceLists :
           DevicesReply(response, devices)

InitPoll == InitWith({{ClimateId}, {HeaterId}}, "replies")

SpecPoll == InitPoll /\ [][NextPoll]_vars

---------------------------------------------------------------------------
(* Properties *)

\* the coordinator is as a refresh request leaves it: the 1 second interval,
\* and the budget as set or with the one unit the debouncer's call used up
RefreshRequested ==
    /\ coord.update_interval = HighFrequencyInterval
    /\ coord.update_retry_count \in {MAX_HIGH_FREQUENCY_POLL_COUNT,
                                     MAX_HIGH_FREQUENCY_POLL_COUNT - 1}

\* the thermostat has no pending value and reports its confirmed ones
ClimateRolledBack ==
    /\ climate.pending_temperature = None
    /\ climate.pending_hvac_mode = NoMode
    /\ climate.last_confirmed_temp # None =>
           target_temperature(climate, data) = climate.last_confirmed_temp
    /\ climate.last_confirmed_mode # NoMode =>
           hvac_mode(climate, data) = climate.last_confirmed_mode

\* the water heater has no pending value and reports its confirmed ones
HeaterRolledBack ==
    /\ heater.pending_target_temperature = None
    /\ heater.pending_work_mode = None
    /\ heater.last_confirmed_target_temp # None =>
           heater_target_temperature(heater, data) = heater.last_confirmed_target_temp
    /\ heater.current_operation =
           WORK_MODE_TO_OPERATION(heater.last_confirmed_work_mode)

\* C1: when a set-work-mode request has failed (the exchange raised, the
\* status was not 200, the body was not JSON, there was no token), the entity
\* - thermostat or water heater - has cleared its pending temperature and
\* mode, reports the last confirmed target temperature and mode, and has
\* requested a refresh.
C1_FailedWriteRolledBack ==
    /\ (ClimateId \in entities /\ climate.last_event = "raised") =>
           (ClimateRolledBack /\ RefreshRequested)
    /\ (HeaterId \in entities /\ heater.last_event = "raised") =>
           (HeaterRolledBack /\ RefreshRequested)

\* C2: when the reply to a set-work-mode request said statu false, the entity
\* has rolled back as after a failure: no pending temperature, no pending
\* mode, a refresh requested.
C2_RejectedWriteRolledBack ==
    /\ (ClimateId \in entities /\ climate.last_event = "rejected") =>
           /\ climate.pending_temperature = None
           /\ climate.pending_hvac_mode = NoMode
           /\ RefreshRequested
    /\ (HeaterId \in entities /\ heater.last_event = "rejected") =>
           /\ heater.pending_target_temperature = None
           /\ heater.pending_work_mode = None
           /\ RefreshRequested

\* C3: after a failed write of the water heater, the operation it reports is
\* the one of the last confirmed work mode.
C3_OperationAfterFailedWrite ==
    (HeaterId \in entities /\ heater.last_event = "raised") =>
        heater.current_operation =
            WORK_MODE_TO_OPERATION(heater.last_confirmed_work_mode)

\* a reply the server gives when all is well: status 200, a JSON envelope
\* with statu true and the payload (user.token, devices)
GoodReply(response) ==
    /\ ~response.raised
    /\ response.status = 200
    /\ response.is_json
    /\ response.statu
    /\ response.field

\* C4: a poll cycle ends with the device list ("ok", the data loaded) exactly
\* when its login, if it needed one, and its device fetch both got a good
\* reply; in every other case it ends with UpdateFailed.
C4_PollAllOrNothing ==
    (poll.pc = "idle" /\ last_update_result # "none") =>
        /\ last_update_result \in {"ok", "UpdateFailed"}
        /\ last_update_result = "ok" <=>
               /\ loginResp = NoReply \/ GoodReply(loginResp)
               /\ GoodReply(devResp)
        /\ last_update_result = "ok" => (data.loaded /\ coord.token # NoToken)

\* a cycle whose login succeeded and whose device fetch failed
C4_Witness ==
    /\ poll.pc = "idle"
    /\ last_update_result = "UpdateFailed"
    /\ GoodReply(loginResp)
    /\ devResp # NoReply
    /\ ~GoodReply(devResp)
    /\ ~data.loaded

\* C5: the target temperature an entity reports is the pending one while one
\* is set, else the last confirmed one if there is one; the same holds of the
\* thermostat's HVAC mode.
C5_PendingShadowsConfirmed ==
    /\ ClimateId \in entities =>
           /\ climate.pending_temperature # None =>
                  target_temperature(climate, data) = climate.pending_temperature
           /\ (climate.pending_temperature = None /\ climate.last_confirmed_temp # None)
                  => target_temperature(climate, data) = climate.last_confirmed_temp
           /\ climate.pending_hvac_mode # NoMode =>
                  hvac_mode(climate, data) = climate.pending_hvac_mode
           /\ (climate.pending_hvac_mode = NoMode /\ climate.last_confirmed_mode # NoMode)
                  => hvac_mode(climate, data) = climate.last_confirmed_mode
    /\ HeaterId \in entities =>
           /\ heater.pending_target_temperature # None =>
                  heater_target_temperature(heater, data) =
                      heater.pending_target_temperature
           /\ (/\ heater.pending_target_temperature = None
               /\ heater.last_confirmed_target_temp # None)
                  => heater_target_temperature(heater, data) =
                         heater.last_confirmed_target_temp

\* the thermostat with a pending temperature and a pending mode that differ
\* from the confirmed ones
C5_Witness ==
    /\ ClimateId \in entities
    /\ climate.pending_temperature # None
    /\ climate.last_confirmed_temp # None
    /\ climate.pending_temperature # climate.last_confirmed_temp
    /\ climate.pending_hvac_mode # NoMode
    /\ climate.last_confirmed_mode # NoMode
    /\ climate.pending_hvac_mode # climate.last_confirmed_mode

\* a step in which a successful poll cycle ends and the thermostat is told
ClimateDelivery ==
    /\ ClimateId \in entities
    /\ poll.pc = "devices"
    /\ poll'.pc = "idle"
    /\ climate'.last_event = "update"
    /\ data'.devices[ClimateId].present

RefreshRequestStep ==
    \/ climate.pc = "sending" /\ climate'.pc # "sending"
    \/ climate.pc = "sleep" /\ climate'.pc = "wait"
    \/ heater.pc = "sending" /\ heater'.pc # "sending"

\* C7: when async_refresh runs for the refresh an entity requested after a
\* write (at once, or later from the debouncer), a fetch of the device list
\* is in flight afterwards.
C7_RequestedRefreshFetches ==
    [][(/\ coord'.update_retry_count = MAX_HIGH_FREQUENCY_POLL_COUNT - 1
        /\ \/ RefreshRequestStep
           \/ coord.update_retry_count = MAX_HIGH_FREQUENCY_POLL_COUNT)
          => poll'.pc # "idle"]_vars

\* C8: right after async_request_refresh the interval is 1 second, shorter
\* than the scan interval, and the budget is MAX_HIGH_FREQUENCY_POLL_COUNT.
C8_AfterRequestRefresh ==
    [][RefreshRequestStep =>
          /\ coord'.update_interval = HighFrequencyInterval
          /\ coord'.update_interval < normal_update_interval
          /\ coord'.update_retry_count = MAX_HIGH_FREQUENCY_POLL_COUNT]_vars

\* C9: once the budget of a refresh request is used up (after at most
\* MAX_HIGH_FREQUENCY_POLL_COUNT calls of async_refresh, or a refresh after
\* which no device wants another), the interval is the scan interval again.
C9_IntervalRestored ==
    coord.update_retry_count = 0 => coord.update_interval = normal_update_interval

\* C10: a poll cycle begins with the login exactly when there is no token,
\* and asks for the device list only with a token; a successful login stores
\* token and user id, a failed one leaves the token unset; an entity's
\* set-work-mode request goes out only with a token.
C10_TokenDiscipline ==
    [][/\ (poll.pc = "idle" /\ poll'.pc # "idle") =>
              (poll'.pc = "login" <=> coord.token = NoToken)
       /\ (poll.pc # "devices" /\ poll'.pc = "devices") =>
              (coord'.token # NoToken /\ poll.pc = (IF coord.token = NoToken
                                                   THEN "login" ELSE "idle"))
       /\ (poll.pc = "login" /\ poll'.pc = "devices") =>
              (coord'.token # NoToken /\ coord'.user_id # NoToken)
       /\ (poll.pc = "login" /\ poll'.pc = "idle") => coord'.token = NoToken
       /\ (climate.pc # "sending" /\ climate'.pc = "sending") =>
              coord.token # NoToken
       /\ (heater.pc # "sending" /\ heater'.pc = "sending") =>
              coord.token # NoToken]_vars

\* the first cycle after its login succeeded: the device list is asked for
\* with the token just stored
C10_Witness ==
    /\ poll.pc = "devices"
    /\ poll.caller = "first"
    /\ coord.token # NoToken
    /\ coord.user_id # NoToken
    /\ ~data.loaded

\* the polled data with the device of entity d replaced by one that reports
\* temperature temp (tenths of a degree) and work mode work_mode
WithDevice(dat, d, temp, work_mode) ==
    [loaded |-> TRUE,
     devices |-> [dat.devices EXCEPT
                     ![d] = [present |-> TRUE, temp |-> temp, work_mode |-> work_mode]]]

\* C11: for every setpoint of the 0.5 degree grid the value sent is 10 times
\* the setpoint and the value reported for it is the setpoint again; a request
\* that goes out for a pending temperature carries 10 times that temperature;
\* and a poll in which the server echoes the value sent for the pending
\* temperature clears the pending temperature, in both entities.
C11_TenthsRoundTrip ==
    /\ [](/\ \A t \in UserTemps : to_api(t) * 10 = t /\ from_api(to_api(t)) = t
          /\ (ClimateId \in entities /\ climate.pending_temperature # None) =>
                 \A work_mode \in ClimateWorkModes :
                     climate_handle_coordinator_update(
                         climate,
                         WithDevice(data, ClimateId,
                                    to_api(climate.pending_temperature), work_mode)
                     ).pending_temperature = None
          /\ (HeaterId \in entities /\ heater.pending_target_temperature # None) =>
                 \A work_mode \in HeaterWorkModes :
                     heater_handle_coordinator_update(
                         heater,
                         WithDevice(data, HeaterId,
                                    to_api(heater.pending_target_temperature), work_mode)
                     ).pending_target_temperature = None)
    /\ [][/\ (/\ climate.pc # "sending" /\ climate'.pc = "sending"
              /\ climate.pending_temperature # None) =>
                 climate'.request.temperature * 10 = climate.pending_temperature
          /\ (/\ heater.pc # "sending" /\ heater'.pc = "sending"
              /\ heater.pending_work_mode = WATERHEATER_WORK_MODE_MANUAL
              /\ heater.pending_target_temperature # None) =>
                 heater'.request.temperature * 10 = heater.pending_target_temperature
         ]_vars

\* the thermostat's request for the pending setpoint 30.5 is in flight with 305
C11_Witness ==
    /\ ClimateId \in entities
    /\ climate.pc = "sending"
    /\ climate.pending_temperature = from_api(BaseTemp + 5)
    /\ climate.request.temperature = BaseTemp + 5

\* C12: for each HVAC mode the thermostat offers, HVAC_TO_WORK_MODE followed
\* by WORK_MODE_TO_HVAC gives the mode back; for each operation of the water
\* heater's operation list, OPERATION_TO_WORK_MODE followed by
\* WORK_MODE_TO_OPERATION gives the operation back; and the work mode of every
\* request the thermostat has in flight maps back to the mode it was sent for.
C12_ModeMappingRoundTrip ==
    /\ \A mode \in HvacModes : WORK_MODE_TO_HVAC(HVAC_TO_WORK_MODE(mode)) = mode
    /\ \A operation_mode \in operation_list :
           WORK_MODE_TO_OPERATION(OPERATION_TO_WORK_MODE(operation_mode))
               = operation_mode
    /\ (ClimateId \in entities /\ climate.pc = "sending") =>
           WORK_MODE_TO_HVAC(climate.request.work_mode) = climate.target_mode

\* the thermostat's request for OFF is in flight with work mode 4
C12_Witness ==
    /\ ClimateId \in entities
    /\ climate.pc = "sending"
    /\ climate.target_mode = OFF
    /\ climate.request.work_mode = CLIMATE_WORK_MODE_OFF

\* C13: an entity never has more than one set-work-mode request awaiting its
\* reply, and a request goes out only when the processing of the one before
\* is over: its reply has come, its refresh was requested and, for AUTO, the
\* 3 second sleep and the second refresh request are done.
C13_SequentialUpdates ==
    /\ [](/\ climate.in_flight <= 1
          /\ heater.in_flight <= 1
          /\ climate.in_flight = 1 <=> climate.pc = "sending"
          /\ heater.in_flight = 1 <=> heater.pc = "sending")
    /\ [][/\ climate'.in_flight > climate.in_flight =>
                 (climate.pc = "wait" /\ climate.in_flight = 0)
          /\ heater'.in_flight > heater.in_flight =>
                 (heater.pc = "wait" /\ heater.in_flight = 0)]_vars

\* the thermostat sleeps after an accepted AUTO request while the next
\* request waits in the queue
C13_Witness ==
    /\ ClimateId \in entities
    /\ climate.pc = "sleep"
    /\ climate.queue = 1
    /\ climate.in_flight = 0

\* C14: the thermostat's update queue never holds more than one request,
\* whatever commands the user issues while the processor is busy; and when
\* the processor sends, the queue is empty again and the request carries the
\* pending mode and temperature of that moment.
C14_ClimateQueueKeepsLatest ==
    /\ [](climate.queue <= 1)
    /\ [][(climate.pc # "sending" /\ climate'.pc = "sending") =>
             /\ climate'.queue = 0
             /\ climate'.target_mode = climate.pending_hvac_mode
             /\ WORK_MODE_TO_HVAC(climate'.request.work_mode)
                    = climate.pending_hvac_mode
             /\ climate.pending_temperature # None =>
                    climate'.request.temperature
                        = to_api(climate.pending_temperature)]_vars

\* a command was issued while the thermostat's earlier request is in flight
C14_Witness ==
    /\ ClimateId \in entities
    /\ climate.pc = "sending"
    /\ climate.queue = 1
    /\ climate.pending_hvac_mode # climate.target_mode

\* C15: the water heater's update queue never holds more than one request,
\* whatever commands the user issues and whatever polls arrive.
C15_HeaterQueueKeepsLatest ==
    heater.queue <= 1


\* how many times x stands in the sequence seq
Count(seq, x) == Cardinality({j \in DOMAIN seq : seq[j] = x})

\* the devices of a list whose type is in types, in the list's order
OfTypes(devices, types) ==
    LET of_type(device) == device.device_type \in types
    IN SelectSeq(devices, of_type)

\* C16: of the polled devices, each water-heater device is one water-heater
\* entity and no climate entity, each other device one climate entity and no
\* water-heater entity; for non-empty type lists, get(valid, []) is the devices
\* whose type is in valid and get([], invalid) those whose type is not in
\* invalid.
C16_PlatformsPartitionDevices ==
    /\ platforms.climate_done =>
           \A i \in DOMAIN platforms.devices :
               Count(platforms.climate, platforms.devices[i].device_id) =
                   IF platforms.devices[i].device_type \in DEVICE_TYPES_WATERHEATER
                   THEN 0 ELSE 1
    /\ platforms.water_heater_done =>
           \A i \in DOMAIN platforms.devices :
               Count(platforms.water_heater, platforms.devices[i].device_id) =
                   IF platforms.devices[i].device_type \in DEVICE_TYPES_WATERHEATER
                   THEN 1 ELSE 0
    /\ \A types \in (SUBSET DeviceTypes) \ {{}} :
           /\ get(platforms.devices, types, {}) = OfTypes(platforms.devices, types)
           /\ get(platforms.devices, {}, types) =
                  OfTypes(platforms.devices, DeviceTypes \ types)

C16_Witness ==
    /\ platforms.climate_done
    /\ platforms.water_heater_done
    /\ Len(platforms.devices) = 3
    /\ platforms.devices[1].device_type = "81"
    /\ platforms.devices[2].device_type = "80"
    /\ platforms.devices[3].device_type = "82"
    /\ platforms.water_heater = <<1>>
    /\ platforms.climate = <<2, 3>>

\* the credential test got an answer that is not a success
CredentialsRejected(response) ==
    /\ ~response.raised
    /\ response.status = 200 => response.is_json
    /\ ~GoodReply(response)

ClimateTakesRequest ==
    /\ climate.pc = "wait"
    /\ climate.queue > 0
    /\ climate'.queue < climate.queue
    /\ set_work_mode_guard(coord) = "request"

\* C18: the temperature t of an async_set_temperature that no later command
\* and no failed send has followed stays queued, and when the processor takes
\* its request a set-work-mode request carrying 10*t is sent, whatever polls
\* were delivered in between.
C18_SetTemperatureIsSent ==
    /\ [](climate.commanded # None => climate.queue > 0)
    /\ [][climate.commanded # None /\ ClimateTakesRequest =>
              /\ climate'.pc = "sending"
              /\ climate'.request.temperature = to_api(climate.commanded)]_vars


\* the set-work-mode request in flight fails while a newer command's request
\* is queued
ClimateFailsWithNewerQueued ==
    /\ climate.pc = "sending"
    /\ climate.queue > 0
    /\ climate'.pc = "wait"
    /\ climate'.last_event = "raised"

\* C19: when the thermostat's request in flight fails while a newer command
\* is queued, the pending temperature and mode, which are the newer command's,
\* are as they were before the failure, and are what the processor sends when
\* it takes the queued request next.
C19_NewerRequestSurvivesFailure ==
    /\ [][ClimateFailsWithNewerQueued =>
              /\ climate'.pending_temperature = climate.pending_temperature
              /\ climate'.pending_hvac_mode = climate.pending_hvac_mode]_vars
    /\ [][(/\ climate.last_event = "raised"
           /\ climate.queue > 0
           /\ ClimateTakesRequest) => climate'.pc = "sending"]_vars


\* C20: of a thermostat that was performing no update when the command came,
\* async_set_hvac_mode(AUTO) is sent as work mode AUTO; async_set_temperature(t)
\* issued in AUTO leaves hvac_mode AUTO and is sent as work mode
\* AUTO_TEMP_OVERRIDE with temperature 10*t.
C20_AutoWorkModes ==
    /\ [](climate.last_event = "set_temperature_auto" =>
              hvac_mode(climate, data) = AUTO)
    /\ [][ClimateTakesRequest /\ climate'.pc = "sending" =>
              /\ (climate.last_event = "set_hvac_mode" /\ climate'.target_mode = AUTO)
                     => climate'.request.work_mode = CLIMATE_WORK_MODE_AUTO
              /\ climate.last_event = "set_temperature_auto" =>
                     /\ climate'.target_mode = AUTO
                     /\ climate'.request.work_mode =
                            CLIMATE_WORK_MODE_AUTO_TEMP_OVERRIDE
                     /\ climate'.request.temperature =
                            to_api(climate.commanded)]_vars


\* C21: the request sent for an async_set_hvac_mode(AUTO) that came while an
\* earlier update of the thermostat was being performed (its reply or its
\* 3 second delay awaited) carries work mode AUTO, not AUTO_TEMP_OVERRIDE.
C21_ModeChangeFlagKept ==
    [][(/\ climate.last_event = "set_hvac_mode_busy"
        /\ ClimateTakesRequest
        /\ climate'.pc = "sending"
        /\ climate'.target_mode = AUTO)
           => climate'.request.work_mode = CLIMATE_WORK_MODE_AUTO]_vars


\* the thermostat as async_set_temperature(t) would leave it now
AfterSetTemperature(t) == climate_async_set_temperature(climate, data, t)

\* what async_set_temperature makes of the mode the thermostat reports
SetTemperatureChoosesMode ==
    ClimateId \in entities =>
        /\ AfterSetTemperature(None) = climate
        /\ \A t \in UserTemps :
               /\ AfterSetTemperature(t).pending_temperature = t
               /\ AfterSetTemperature(t).queue = 1
               /\ hvac_mode(climate, data) = OFF =>
                      /\ AfterSetTemperature(t).pending_hvac_mode = HEAT
                      /\ hvac_mode(AfterSetTemperature(t), data) = HEAT
               /\ hvac_mode(climate, data) = HEAT =>
                      hvac_mode(AfterSetTemperature(t), data) = HEAT
               /\ hvac_mode(climate, data) = AUTO =>
                      hvac_mode(AfterSetTemperature(t), data) = AUTO

\* the processor sends the request of an async_set_temperature that came
\* while the thermostat reported OFF
SendsTemperatureSetInOff ==
    /\ climate.last_event \in {"set_temperature_off", "set_temperature_off_busy"}
    /\ ClimateTakesRequest
    /\ climate'.pc = "sending"

\* C22: async_set_temperature(t) takes the mode from the reported one: from
\* OFF the pending mode becomes HEAT and the request sent is work mode MANUAL
\* with 10*t, from HEAT the thermostat stays in HEAT, from AUTO in AUTO; a call
\* without a temperature changes nothing and queues nothing.
C22_SetTemperatureMode ==
    /\ []SetTemperatureChoosesMode
    /\ [][SendsTemperatureSetInOff =>
              /\ climate'.request.work_mode = CLIMATE_WORK_MODE_MANUAL
              /\ climate'.request.temperature = to_api(climate.commanded)]_vars

=============================================================================
